---- MODULE Spec2Model ----
(***************************************************************************)
(* Model of pkg/i2gw/aggregator.go: the ingressAggregator that groups      *)
(* Ingress rules into rule groups (addIngress) and converts them into      *)
(* HTTPRoutes and Gateways (toHTTPRoutesAndGateways).                      *)
(*                                                                         *)
(* Conventions.  A Go string is a TLA+ string and is handled character by  *)
(* character (Len, SubSeq, \o).  A Go pointer is a sequence of length at   *)
(* most one: <<>> is nil and <<v>> points to v.  A Go slice is a sequence. *)
(* A Go map is a function; its iteration order, which Go leaves            *)
(* unspecified, is an argument of the operators that range over it and is  *)
(* chosen nondeterministically by the action.  A nil-pointer dereference   *)
(* is a panic: the operators return a record whose panic field is TRUE,    *)
(* and the program then stops without returning anything.                  *)
(***************************************************************************)
EXTENDS Integers, Sequences, FiniteSets, TLC

VARIABLES
    ruleGroups,       \* a.ruleGroups: map[ruleGroupKey]*ingressRuleGroup
    defaultBackends,  \* a.defaultBackends: []ingressDefaultBackend
    ingresses,        \* the source objects fed to addIngress so far, in order
    status,           \* "adding", "returned" or "panic"
    httpRoutes,       \* first value returned by toHTTPRoutesAndGateways
    gateways,         \* second value returned by toHTTPRoutesAndGateways
    errors            \* third value returned by toHTTPRoutesAndGateways

vars == <<ruleGroups, defaultBackends, ingresses, status, httpRoutes, gateways, errors>>

-----------------------------------------------------------------------------
(* Bounds of the model *)

\* Number of source objects fed to one aggregator under Spec.
MaxIngresses == 2

\* Number of source objects fed to one aggregator under SpecCanary.
MaxCanaryIngresses == 3

\* Number of source objects fed to one aggregator under SpecPaths.
MaxPathIngresses == 2

-----------------------------------------------------------------------------
(* Generic helpers *)

Range(s) == {s[i] : i \in DOMAIN s}

\* All orders in which the keys of a map can be visited.
Perms(S) ==
    {p \in [1..Cardinality(S) -> S] : \A i, j \in DOMAIN p : p[i] = p[j] => i = j}

RECURSIVE SumSeq(_)
SumSeq(s) == IF s = <<>> THEN 0 ELSE Head(s) + SumSeq(Tail(s))

RECURSIVE Flatten(_)
Flatten(ss) == IF ss = <<>> THEN <<>> ELSE Head(ss) \o Flatten(Tail(ss))

-----------------------------------------------------------------------------
(* Strings *)

AlnumChars ==
    {"a","b","c","d","e","f","g","h","i","j","k","l","m",
     "n","o","p","q","r","s","t","u","v","w","x","y","z",
     "A","B","C","D","E","F","G","H","I","J","K","L","M",
     "N","O","P","Q","R","S","T","U","V","W","X","Y","Z",
     "0","1","2","3","4","5","6","7","8","9"}

DigitChars == {"0","1","2","3","4","5","6","7","8","9"}

CharAt(s, i) == SubSeq(s, i, i)

\* Go integer division truncates toward zero (TLA+ \div rounds down).
GoDiv(a, b) == IF a >= 0 THEN a \div b ELSE -((-a) \div b)

\* strings.Split(s, "/"): the pieces of s between the separators; a string
\* without separator is returned whole, "" included.
RECURSIVE SplitFrom(_, _)
SplitFrom(s, cur) ==
    IF s = "" THEN <<cur>>
    ELSE IF CharAt(s, 1) = "/" THEN <<cur>> \o SplitFrom(Tail(s), "")
    ELSE SplitFrom(Tail(s), cur \o CharAt(s, 1))

Split(s) == SplitFrom(s, "")

\* s without its leading run of characters outside [a-zA-Z0-9].
RECURSIVE TrimLeadingSpecial(_)
TrimLeadingSpecial(s) ==
    IF s = "" THEN ""
    ELSE IF CharAt(s, 1) \in AlnumChars THEN s
    ELSE TrimLeadingSpecial(Tail(s))

\* regexp "[^a-zA-Z0-9]+" ReplaceAllString(host, "-").
RECURSIVE ReplaceSpecialRuns(_)
ReplaceSpecialRuns(s) ==
    IF s = "" THEN ""
    ELSE IF CharAt(s, 1) \in AlnumChars
         THEN CharAt(s, 1) \o ReplaceSpecialRuns(Tail(s))
         ELSE "-" \o ReplaceSpecialRuns(TrimLeadingSpecial(s))

nameFromHost(host) ==
    LET step1 == ReplaceSpecialRuns(host)
        step2 == TrimLeadingSpecial(step1)
    IN  IF Len(host) = 0 THEN "all-hosts" ELSE step2

DigitValue(c) ==
    CASE c = "0" -> 0 [] c = "1" -> 1 [] c = "2" -> 2 [] c = "3" -> 3
      [] c = "4" -> 4 [] c = "5" -> 5 [] c = "6" -> 6 [] c = "7" -> 7
      [] c = "8" -> 8 [] c = "9" -> 9

RECURSIVE DigitsValue(_, _)
DigitsValue(s, acc) ==
    IF s = "" THEN acc ELSE DigitsValue(Tail(s), 10 * acc + DigitValue(CharAt(s, 1)))

AllDigits(s) == s # "" /\ \A i \in 1..Len(s) : CharAt(s, i) \in DigitChars

\* strconv.Atoi with its error dropped: an optional sign and decimal digits;
\* anything else is a syntax error, for which Atoi returns 0.  (Values that
\* leave the int range are beyond the strings the model feeds.)
Atoi(s) ==
    IF s = "" THEN 0
    ELSE IF CharAt(s, 1) = "-"
         THEN (IF AllDigits(Tail(s)) THEN -DigitsValue(Tail(s), 0) ELSE 0)
    ELSE IF CharAt(s, 1) = "+"
         THEN (IF AllDigits(Tail(s)) THEN DigitsValue(Tail(s), 0) ELSE 0)
    ELSE IF AllDigits(s) THEN DigitsValue(s, 0) ELSE 0

-----------------------------------------------------------------------------
(* Annotation extractor *)

AnnotationIngressClass == "kubernetes.io/ingress.class"
AnnotationCanary == "nginx.ingress.kubernetes.io/canary"
AnnotationCanaryByHeader == "nginx.ingress.kubernetes.io/canary-by-header"
AnnotationCanaryByHeaderValue == "nginx.ingress.kubernetes.io/canary-by-header-value"
AnnotationCanaryByHeaderPattern == "nginx.ingress.kubernetes.io/canary-by-header-pattern"
AnnotationCanaryWeight == "nginx.ingress.kubernetes.io/canary-weight"
AnnotationCanaryWeightTotal == "nginx.ingress.kubernetes.io/canary-weight-total"

\* Reading a Go map[string]string: the zero value "" for an absent key.
Annotation(ingress, key) ==
    IF key \in DOMAIN ingress.annotations THEN ingress.annotations[key] ELSE ""

getExtra(ingress) ==
    IF Annotation(ingress, AnnotationCanary) = "true"
    THEN LET cHeader == Annotation(ingress, AnnotationCanaryByHeader)
             cHeaderVal == Annotation(ingress, AnnotationCanaryByHeaderValue)
             cHeaderRegex == Annotation(ingress, AnnotationCanaryByHeaderPattern)
             cHeaderWeight == Annotation(ingress, AnnotationCanaryWeight)
             cHeaderWeightTotal == Annotation(ingress, AnnotationCanaryWeightTotal)
         IN  [canary |-> <<[
                 enable |-> TRUE,
                 headerKey |-> cHeader,
                 headerValue |->
                     IF cHeaderRegex # "" THEN cHeaderRegex
                     ELSE IF cHeaderVal # "" THEN cHeaderVal
                     ELSE IF cHeader # "" THEN "always"
                     ELSE "",
                 headerRegexMatch |-> cHeaderRegex # "",
                 weight |-> IF cHeaderWeight # "" THEN Atoi(cHeaderWeight) ELSE 0,
                 weightTotal |->
                     IF cHeaderWeightTotal # "" THEN Atoi(cHeaderWeightTotal)
                     ELSE IF cHeaderWeight # "" THEN 100
                     ELSE 0]>>]
    ELSE [canary |-> <<>>]

-----------------------------------------------------------------------------
(* Rule aggregator *)

resolveIngressClass(ingress) ==
    IF ingress.ingressClassName # <<>> /\ ingress.ingressClassName[1] # ""
    THEN ingress.ingressClassName[1]
    ELSE IF AnnotationIngressClass \in DOMAIN ingress.annotations
    THEN ingress.annotations[AnnotationIngressClass]
    ELSE ingress.name

RuleGroupKey(namespace, ingressClass, host) ==
    namespace \o "/" \o ingressClass \o "/" \o host

\* a.ruleGroups after addIngressRule(namespace, ingressClass, rule, iSpec, e).
addIngressRule(groups, namespace, ingressClass, rule, tls, e) ==
    LET rgKey == RuleGroupKey(namespace, ingressClass, rule.host)
        rg == IF rgKey \in DOMAIN groups
              THEN groups[rgKey]
              ELSE [namespace |-> namespace, ingressClass |-> ingressClass,
                    host |-> rule.host, tls |-> <<>>, rules |-> <<>>]
        rg2 == [rg EXCEPT !.tls = IF Len(tls) > 0 THEN rg.tls \o tls ELSE rg.tls,
                          !.rules = Append(rg.rules, [rule |-> rule, extra |-> e])]
    IN  [k \in DOMAIN groups \cup {rgKey} |-> IF k = rgKey THEN rg2 ELSE groups[k]]

RECURSIVE addIngressRules(_, _, _, _, _, _)
addIngressRules(groups, namespace, ingressClass, rules, tls, e) ==
    IF rules = <<>> THEN groups
    ELSE addIngressRules(
             addIngressRule(groups, namespace, ingressClass, Head(rules), tls, e),
             namespace, ingressClass, Tail(rules), tls, e)

addIngress(ingress) ==
    /\ status = "adding"
    /\ ruleGroups' = addIngressRules(ruleGroups, ingress.namespace,
                         resolveIngressClass(ingress), ingress.rules, ingress.tls,
                         getExtra(ingress))
    /\ defaultBackends' =
           IF ingress.defaultBackend # <<>>
           THEN Append(defaultBackends,
                    [name |-> ingress.name, namespace |-> ingress.namespace,
                     ingressClass |-> resolveIngressClass(ingress),
                     backend |-> ingress.defaultBackend[1]])
           ELSE defaultBackends
    /\ ingresses' = Append(ingresses, ingress)
    /\ UNCHANGED <<status, httpRoutes, gateways, errors>>

-----------------------------------------------------------------------------
(* Route builder *)

NamedPortErrorPrefix == "Named ports not supported: "
PathTypeErrorPrefix == "Unsupported path match type: "
GatewayKeyErrorPrefix == "Error generating Gateway listeners for key: "

PathTypePrefix == "Prefix"
PathTypeExact == "Exact"

NoPanic(r) == [panic |-> FALSE] @@ r
Panic == [panic |-> TRUE]

\* toBackendRef: [panic], or [err, ref] of which exactly one is non-nil.
toBackendRef(ib) ==
    IF ib.service # <<>>
    THEN IF ib.service[1].portName # ""
         THEN NoPanic([err |-> <<NamedPortErrorPrefix \o ib.service[1].portName>>,
                       ref |-> <<>>])
         ELSE NoPanic([err |-> <<>>,
                       ref |-> <<[group |-> <<>>, kind |-> <<>>,
                                  name |-> ib.service[1].name,
                                  port |-> <<ib.service[1].portNumber>>,
                                  weight |-> <<>>]>>])
    ELSE IF ib.resource = <<>>
    THEN Panic    \* ib.Resource.APIGroup with ib.Resource == nil
    ELSE NoPanic([err |-> <<>>,
                  ref |-> <<[group |-> ib.resource[1].apiGroup,
                             kind |-> <<ib.resource[1].kind>>,
                             name |-> ib.resource[1].name,
                             port |-> <<>>,
                             weight |-> <<>>]>>])

canaryOf(ip) == ip.extra.canary

\* getPathMatchKey leaving the canary header key out of the key.
getPathMatchKeyNoHeader(ip) ==
    (IF ip.path.pathType # <<>> THEN ip.path.pathType[1] ELSE "")
        \o "/" \o ip.path.path \o "/"

getPathMatchKey(ip) ==
    LET pathType == IF ip.path.pathType # <<>> THEN ip.path.pathType[1] ELSE ""
        canaryHeaderKey ==
            IF canaryOf(ip) # <<>> /\ canaryOf(ip)[1].headerKey # ""
            THEN canaryOf(ip)[1].headerKey ELSE ""
    IN  pathType \o "/" \o ip.path.path \o "/" \o canaryHeaderKey

\* toHTTPRouteMatch: [panic], or [err, match] of which exactly one is non-nil.
toHTTPRouteMatch(ip) ==
    IF ip.path.pathType = <<>>
    THEN Panic    \* *ip.path.PathType with PathType == nil
    ELSE IF ip.path.pathType[1] \notin {PathTypePrefix, PathTypeExact}
    THEN NoPanic([err |-> <<PathTypeErrorPrefix \o ip.path.pathType[1]>>,
                  match |-> <<>>])
    ELSE NoPanic([err |-> <<>>,
                  match |-> <<[
                      path |-> [type |-> IF ip.path.pathType[1] = PathTypePrefix
                                         THEN "PathPrefix" ELSE "Exact",
                                value |-> ip.path.path],
                      headers |->
                          IF canaryOf(ip) # <<>> /\ canaryOf(ip)[1].headerKey # ""
                          THEN <<[name |-> canaryOf(ip)[1].headerKey,
                                  value |-> canaryOf(ip)[1].headerValue,
                                  type |-> IF canaryOf(ip)[1].headerRegexMatch
                                           THEN "RegularExpression" ELSE "Exact"]>>
                          ELSE <<>>]>>])

\* The canary weight a path entry sets on its backend reference, 0 for none.
\* (weight := int32(canary.weight): exact for every value the model feeds.)
explicitWeight(ip) ==
    IF canaryOf(ip) # <<>> /\ canaryOf(ip)[1].weight # 0
    THEN canaryOf(ip)[1].weight ELSE 0

\* The loop over one partition's paths: backend references, the count and the
\* sum of the explicit weights, and the errors.  (The int32 sum is exact for
\* the weights the model feeds; TLC's own integers have that width.)
RECURSIVE collectBackendRefs(_, _)
collectBackendRefs(paths, acc) ==
    IF paths = <<>> \/ acc.panic THEN acc
    ELSE LET path == Head(paths)
             br == toBackendRef(path.path.backend)
         IN  IF br.panic THEN [acc EXCEPT !.panic = TRUE]
             ELSE IF br.err # <<>>
             THEN collectBackendRefs(Tail(paths),
                      [acc EXCEPT !.errors = acc.errors \o br.err])
             ELSE IF explicitWeight(path) # 0
             THEN collectBackendRefs(Tail(paths),
                      [acc EXCEPT
                          !.backendRefs = Append(acc.backendRefs,
                              [br.ref[1] EXCEPT !.weight = <<explicitWeight(path)>>]),
                          !.totalWeightSet = acc.totalWeightSet + explicitWeight(path),
                          !.numWeightedBackends = acc.numWeightedBackends + 1])
             ELSE collectBackendRefs(Tail(paths),
                      [acc EXCEPT !.backendRefs = Append(acc.backendRefs, br.ref[1])])

TotalWeight == 100

\* weightToSet dividing among all references instead of the unweighted ones.
weightToSetOverAll(totalWeightSet, numBackends, numWeighted) ==
    GoDiv(TotalWeight - totalWeightSet, numBackends)

\* weightToSet for numBackends references of which numWeighted carry a weight.
weightToSet(totalWeightSet, numBackends, numWeighted) ==
    GoDiv(TotalWeight - totalWeightSet, numBackends - numWeighted)

\* Whether the unweighted backend references are given weightToSet.
redistributes(numBackends, numWeighted) ==
    numWeighted > 0 /\ numWeighted < numBackends

distributeWeights(backendRefs, numWeighted, totalWeightSet) ==
    IF redistributes(Len(backendRefs), numWeighted)
    THEN [i \in DOMAIN backendRefs |->
             IF backendRefs[i].weight = <<>>
             THEN [backendRefs[i] EXCEPT !.weight =
                      <<weightToSet(totalWeightSet, Len(backendRefs), numWeighted)>>]
             ELSE backendRefs[i]]
    ELSE backendRefs

\* One iteration of the loop over pathsByMatchGroup: [panic], or the rules
\* (none or one) and the errors the partition adds.
toHTTPRouteRule(paths) ==
    LET m == toHTTPRouteMatch(paths[1])
    IN  IF m.panic THEN Panic
        ELSE IF m.err # <<>> THEN NoPanic([rules |-> <<>>, errors |-> m.err])
        ELSE LET c == collectBackendRefs(paths,
                          [panic |-> FALSE, backendRefs |-> <<>>,
                           numWeightedBackends |-> 0, totalWeightSet |-> 0,
                           errors |-> <<>>])
             IN  IF c.panic THEN Panic
                 ELSE NoPanic([
                     rules |-> <<[matches |-> m.match,
                                  backendRefs |-> distributeWeights(c.backendRefs,
                                      c.numWeightedBackends, c.totalWeightSet)]>>,
                     errors |-> c.errors])

\* Whether some rule of the group has no HTTP block (ir.rule.HTTP == nil).
hasNilHTTP(rg) == \E i \in DOMAIN rg.rules : rg.rules[i].rule.http = <<>>

\* The group's path entries in the order of the two nested loops.
ingressPaths(rg) ==
    Flatten([i \in DOMAIN rg.rules |->
        IF rg.rules[i].rule.http = <<>> THEN <<>>
        ELSE [j \in DOMAIN rg.rules[i].rule.http[1].paths |->
                 [path |-> rg.rules[i].rule.http[1].paths[j],
                  extra |-> rg.rules[i].extra]]])

\* pathsByMatchGroup: the entries of each path-match key, in encounter order.
pathsByMatchGroup(rg) ==
    LET ips == ingressPaths(rg)
    IN  [pmKey \in {getPathMatchKey(ips[i]) : i \in DOMAIN ips} |->
            SelectSeq(ips, LAMBDA ip : getPathMatchKey(ip) = pmKey)]

RECURSIVE toHTTPRouteRules(_, _, _)
toHTTPRouteRules(groups, order, acc) ==
    IF order = <<>> \/ acc.panic THEN acc
    ELSE LET r == toHTTPRouteRule(groups[Head(order)])
         IN  IF r.panic THEN [acc EXCEPT !.panic = TRUE]
             ELSE toHTTPRouteRules(groups, Tail(order),
                      [acc EXCEPT !.rules = acc.rules \o r.rules,
                                  !.errors = acc.errors \o r.errors])

\* rg.toHTTPRoute(), the map pathsByMatchGroup being visited in `order`:
\* [panic], or [httpRoute, errors].
toHTTPRoute(rg, order) ==
    IF hasNilHTTP(rg) THEN Panic    \* ir.rule.HTTP.Paths with HTTP == nil
    ELSE LET r == toHTTPRouteRules(pathsByMatchGroup(rg), order,
                      [panic |-> FALSE, rules |-> <<>>, errors |-> <<>>])
         IN  IF r.panic THEN Panic
             ELSE NoPanic([
                 httpRoute |-> [
                     name |-> nameFromHost(rg.host),
                     namespace |-> rg.namespace,
                     parentRefs |-> IF rg.ingressClass # ""
                                    THEN <<[name |-> rg.ingressClass]>> ELSE <<>>,
                     hostnames |-> IF rg.host # "" THEN <<rg.host>> ELSE <<>>,
                     rules |-> r.rules],
                 errors |-> r.errors])

-----------------------------------------------------------------------------
(* Gateway builder *)

GatewayKey(rg) == rg.namespace \o "/" \o rg.ingressClass

\* The listener derived from one rule group (first loop of
\* toHTTPRoutesAndGateways).
groupListener(rg) ==
    [hostname |-> IF rg.host # "" THEN <<rg.host>>
                  ELSE IF Len(rg.tls) = 1 /\ Len(rg.tls[1].hosts) = 1
                  THEN <<rg.tls[1].hosts[1]>>
                  ELSE <<>>,
     tls |-> IF Len(rg.tls) > 0
             THEN <<[certificateRefs |->
                        [i \in DOMAIN rg.tls |-> rg.tls[i].secretName]]>>
             ELSE <<>>]

\* listenersByNamespacedGateway after the first loop has visited the rule
\* groups in rgOrder.
listenersByNamespacedGateway(groups, rgOrder) ==
    [gwKey \in {GatewayKey(groups[k]) : k \in DOMAIN groups} |->
        LET mine == SelectSeq(rgOrder, LAMBDA k : GatewayKey(groups[k]) = gwKey)
        IN  [i \in DOMAIN mine |-> groupListener(groups[mine[i]])]]

RECURSIVE groupRoutes(_, _, _, _)
groupRoutes(groups, rgOrder, pmOrders, acc) ==
    IF rgOrder = <<>> \/ acc.panic THEN acc
    ELSE LET r == toHTTPRoute(groups[Head(rgOrder)], pmOrders[Head(rgOrder)])
         IN  IF r.panic THEN [acc EXCEPT !.panic = TRUE]
             \* errors is redeclared by := inside the loop body: what
             \* toHTTPRoute reports is appended to that inner slice only.
             ELSE groupRoutes(groups, Tail(rgOrder), pmOrders,
                      [acc EXCEPT !.httpRoutes = Append(acc.httpRoutes, r.httpRoute)])

RECURSIVE defaultBackendRoutes(_, _)
defaultBackendRoutes(dbs, acc) ==
    IF dbs = <<>> \/ acc.panic THEN acc
    ELSE LET db == Head(dbs)
             br == toBackendRef(db.backend)
             httpRoute == [name |-> db.name \o "-default-backend",
                           namespace |-> db.namespace,
                           parentRefs |-> <<[name |-> db.ingressClass]>>,
                           hostnames |-> <<>>,
                           rules |-> <<>>]
         IN  IF br.panic THEN [acc EXCEPT !.panic = TRUE]
             ELSE IF br.err # <<>>
             THEN defaultBackendRoutes(Tail(dbs),
                      [acc EXCEPT !.errors = acc.errors \o br.err,
                                  !.httpRoutes = Append(acc.httpRoutes, httpRoute)])
             ELSE defaultBackendRoutes(Tail(dbs),
                      [acc EXCEPT !.httpRoutes = Append(acc.httpRoutes,
                          [httpRoute EXCEPT !.rules =
                              <<[matches |-> <<>>, backendRefs |-> br.ref]>>])])

listenerNamePrefix(listener) ==
    IF listener.hostname # <<>> /\ listener.hostname[1] # ""
    THEN nameFromHost(listener.hostname[1]) \o "-" ELSE ""

\* The one or two Gateway listeners one group's listener expands to.
gatewayListeners(listener) ==
    <<[name |-> listenerNamePrefix(listener) \o "http",
       hostname |-> listener.hostname,
       port |-> 80, protocol |-> "HTTP", tls |-> <<>>]>>
    \o (IF listener.tls # <<>>
        THEN <<[name |-> listenerNamePrefix(listener) \o "https",
                hostname |-> listener.hostname,
                port |-> 443, protocol |-> "HTTPS", tls |-> listener.tls]>>
        ELSE <<>>)

wellFormedGatewayKey(gwKey) == Len(Split(gwKey)) = 2

newGateway(gwKey, listeners) ==
    LET parts == Split(gwKey)
    IN  [namespace |-> parts[1],
         name |-> parts[2],
         gatewayClassName |-> parts[2],
         listeners |-> Flatten([i \in DOMAIN listeners |-> gatewayListeners(listeners[i])])]

\* gatewaysByKey after the loop over listenersByNamespacedGateway.
gatewaysByKey(listenersByKey) ==
    [gwKey \in {k \in DOMAIN listenersByKey : wellFormedGatewayKey(k)} |->
        newGateway(gwKey, listenersByKey[gwKey])]

\* The errors of the loop over listenersByNamespacedGateway, visited in gwOrder.
gatewayKeyErrors(gwOrder) ==
    LET bad == SelectSeq(gwOrder, LAMBDA k : ~wellFormedGatewayKey(k))
    IN  [i \in DOMAIN bad |-> GatewayKeyErrorPrefix \o bad[i]]

\* The map iteration orders one call may meet: of a.ruleGroups, of each
\* group's pathsByMatchGroup, of listenersByNamespacedGateway, of gatewaysByKey.
pathOrders(groups) ==
    LET orders == [k \in DOMAIN groups |-> Perms(DOMAIN pathsByMatchGroup(groups[k]))]
    IN  {f \in [DOMAIN groups -> UNION {orders[k] : k \in DOMAIN groups}] :
            \A k \in DOMAIN groups : f[k] \in orders[k]}

gatewayKeys(groups) == {GatewayKey(groups[k]) : k \in DOMAIN groups}

\* What a.toHTTPRoutesAndGateways() does under the given iteration orders:
\* [panic], or the three returned lists.
convert(groups, dbs, rgOrder, pmOrders, gwOrder, outOrder) ==
    LET r1 == groupRoutes(groups, rgOrder, pmOrders,
                  [panic |-> FALSE, httpRoutes |-> <<>>, errors |-> <<>>])
        r2 == defaultBackendRoutes(dbs, r1)
        byKey == gatewaysByKey(listenersByNamespacedGateway(groups, rgOrder))
    IN  IF r2.panic THEN Panic
        ELSE NoPanic([httpRoutes |-> r2.httpRoutes,
                      gateways |-> [i \in DOMAIN outOrder |-> byKey[outOrder[i]]],
                      errors |-> r2.errors \o gatewayKeyErrors(gwOrder)])

toHTTPRoutesAndGateways ==
    /\ status \in {"adding", "returned"}
    /\ \E rgOrder \in Perms(DOMAIN ruleGroups) :
       \E pmOrders \in pathOrders(ruleGroups) :
       \E gwOrder \in Perms(gatewayKeys(ruleGroups)) :
       \E outOrder \in Perms({k \in gatewayKeys(ruleGroups) : wellFormedGatewayKey(k)}) :
       \E r \in {convert(ruleGroups, defaultBackends, rgOrder, pmOrders,
                         gwOrder, outOrder)} :
               IF r.panic
               THEN /\ status' = "panic"
                    /\ UNCHANGED <<httpRoutes, gateways, errors>>
               ELSE /\ status' = "returned"
                    /\ httpRoutes' = r.httpRoutes
                    /\ gateways' = r.gateways
                    /\ errors' = r.errors
    /\ UNCHANGED <<ruleGroups, defaultBackends, ingresses>>

-----------------------------------------------------------------------------
(* Source objects fed to the aggregator *)

ServiceBackend(name, number) ==
    [service |-> <<[name |-> name, portName |-> "", portNumber |-> number]>>,
     resource |-> <<>>]

NamedPortBackend(name, portName) ==
    [service |-> <<[name |-> name, portName |-> portName, portNumber |-> 0]>>,
     resource |-> <<>>]

ResourceBackend(kind, name) ==
    [service |-> <<>>,
     resource |-> <<[apiGroup |-> <<"storage.k8s.io">>, kind |-> kind, name |-> name]>>]

EmptyBackend == [service |-> <<>>, resource |-> <<>>]

IngressPath(pathType, path, backend) ==
    [pathType |-> pathType, path |-> path, backend |-> backend]

IngressRule(host, paths) == [host |-> host, http |-> <<[paths |-> paths]>>]

IngressTLS(hosts, secretName) == [hosts |-> hosts, secretName |-> secretName]

NoAnnotations == <<>>

Ingress(namespace, name, ingressClassName, annotations, rules, defaultBackend, tls) ==
    [namespace |-> namespace, name |-> name, ingressClassName |-> ingressClassName,
     annotations |-> annotations, rules |-> rules,
     defaultBackend |-> defaultBackend, tls |-> tls]

CanaryAnnotations == AnnotationCanary :> "true"

\* Source objects of Spec: three ways of naming the ingress class, hosts that
\* sanitize to one token, TLS, default backends, unsupported and malformed
\* entries.
Ingresses ==
    { Ingress("ns", "web", <<"nginx">>, NoAnnotations,
          <<IngressRule("a.b", <<IngressPath(<<"Prefix">>, "/", ServiceBackend("s1", 80))>>)>>,
          <<>>, <<>>),
      Ingress("ns", "web2", <<"nginx">>, NoAnnotations,
          <<IngressRule("a-b", <<IngressPath(<<"Prefix">>, "/", ServiceBackend("s2", 80))>>)>>,
          <<>>, <<IngressTLS(<<"a-b">>, "cert")>>),
      Ingress("ns", "api", <<>>, AnnotationIngressClass :> "team/blue",
          <<IngressRule("a.b", <<IngressPath(<<"Exact">>, "/x", ServiceBackend("s3", 8080))>>)>>,
          <<>>, <<>>),
      Ingress("ns", "solo", <<>>, NoAnnotations,
          <<>>,
          <<ServiceBackend("s4", 80)>>, <<>>),
      Ingress("ns", "tls", <<"nginx">>, NoAnnotations,
          <<IngressRule("", <<IngressPath(<<"Prefix">>, "/", ResourceBackend("Bucket", "b5"))>>)>>,
          <<>>, <<IngressTLS(<<"a.b">>, "cert2")>>),
      Ingress("ns", "np", <<"nginx">>, NoAnnotations,
          <<IngressRule("c.d", <<IngressPath(<<"Prefix">>, "/", NamedPortBackend("s6", "http")),
                                 IngressPath(<<"ImplementationSpecific">>, "/i", ServiceBackend("s6", 80))>>)>>,
          <<NamedPortBackend("s6", "web")>>, <<>>),
      Ingress("ns", "nohttp", <<"nginx">>, NoAnnotations,
          <<[host |-> "e.f", http |-> <<>>]>>,
          <<>>, <<>>),
      Ingress("ns", "notype", <<"nginx">>, NoAnnotations,
          <<IngressRule("e.f", <<IngressPath(<<>>, "/", ServiceBackend("s8", 80))>>)>>,
          <<>>, <<>>),
      Ingress("ns", "noback", <<"nginx">>, NoAnnotations,
          <<IngressRule("e.f", <<IngressPath(<<"Prefix">>, "/", EmptyBackend)>>)>>,
          <<>>, <<>>),
      Ingress("ns2", "other", <<"">>, AnnotationIngressClass :> "nginx",
          <<IngressRule("a.b", <<IngressPath(<<"Prefix">>, "/", ServiceBackend("s1", 80))>>)>>,
          <<>>, <<>>) }

\* Source objects of SpecCanary and SpecPaths: one namespace and one ingress
\* class, with the canary annotations, the hosts and the paths varied.
CanaryIngress(name, annotations, rules) ==
    Ingress("ns", name, <<"nginx">>, annotations, rules, <<>>, <<>>)

RootPath(backend) == IngressPath(<<"Prefix">>, "/", backend)

\* Source objects of SpecCanary: alternative backends of one route match,
\* with canary weights that are unset, in range, out of range, unparsable,
\* or carried by an entry whose backend is dropped for its named port.
CanaryIngresses ==
    { CanaryIngress("stable", NoAnnotations,
          <<IngressRule("a.b", <<RootPath(ServiceBackend("stable", 80))>>)>>),
      CanaryIngress("stable2", NoAnnotations,
          <<IngressRule("a.b", <<RootPath(ServiceBackend("stable2", 80))>>)>>),
      CanaryIngress("c30", CanaryAnnotations @@ (AnnotationCanaryWeight :> "30"),
          <<IngressRule("a.b", <<RootPath(ServiceBackend("c30", 80))>>)>>),
      CanaryIngress("c50", CanaryAnnotations @@ (AnnotationCanaryWeight :> "50"),
          <<IngressRule("a.b", <<RootPath(ServiceBackend("c50", 80))>>)>>),
      CanaryIngress("c105", CanaryAnnotations @@ (AnnotationCanaryWeight :> "105")
                                @@ (AnnotationCanaryWeightTotal :> "200"),
          <<IngressRule("a.b", <<RootPath(ServiceBackend("c105", 80))>>)>>),
      CanaryIngress("cnp", CanaryAnnotations @@ (AnnotationCanaryWeight :> "30"),
          <<IngressRule("a.b", <<RootPath(NamedPortBackend("cnp", "http"))>>)>>),
      CanaryIngress("cx", CanaryAnnotations @@ (AnnotationCanaryWeight :> "x1"),
          <<IngressRule("a.b", <<RootPath(ServiceBackend("cx", 80))>>)>>) }

\* Source objects of SpecPaths: path entries with equal and with different
\* path-match keys, in one and in two rule groups.
PathIngresses ==
    { CanaryIngress("stable", NoAnnotations,
          <<IngressRule("a.b", <<RootPath(ServiceBackend("stable", 80))>>)>>),
      CanaryIngress("c30", CanaryAnnotations @@ (AnnotationCanaryWeight :> "30"),
          <<IngressRule("a.b", <<RootPath(ServiceBackend("c30", 80))>>),
            IngressRule("c.d", <<RootPath(ServiceBackend("c30", 80))>>)>>),
      CanaryIngress("np", NoAnnotations,
          <<IngressRule("a.b", <<RootPath(NamedPortBackend("np", "http"))>>)>>),
      CanaryIngress("exact", NoAnnotations,
          <<IngressRule("a.b", <<IngressPath(<<"Exact">>, "/", ServiceBackend("exact", 80))>>)>>),
      CanaryIngress("chdr", CanaryAnnotations @@ (AnnotationCanaryByHeader :> "h"),
          <<IngressRule("a.b", <<RootPath(ServiceBackend("chdr", 80))>>)>>),
      CanaryIngress("paths", NoAnnotations,
          <<IngressRule("a.b",
              <<IngressPath(<<"ImplementationSpecific">>, "/i", ServiceBackend("pi", 80)),
                IngressPath(<<"Prefix">>, "/a/b", ResourceBackend("Bucket", "pab"))>>)>>),
      CanaryIngress("cslash", CanaryAnnotations @@ (AnnotationCanaryByHeader :> "b/")
                                  @@ (AnnotationCanaryByHeaderPattern :> "v.*"),
          <<IngressRule("a.b",
              <<IngressPath(<<"Prefix">>, "/a", ServiceBackend("cslash", 80))>>)>>) }

-----------------------------------------------------------------------------
(* Specifications *)

\* Source objects are distinct objects of a cluster or manifest: no two have
\* the same namespace and name.
notYetFed(ingress) ==
    \A i \in DOMAIN ingresses :
        <<ingresses[i].namespace, ingresses[i].name>> # <<ingress.namespace, ingress.name>>

Init ==
    /\ ruleGroups = <<>>
    /\ defaultBackends = <<>>
    /\ ingresses = <<>>
    /\ status = "adding"
    /\ httpRoutes = <<>>
    /\ gateways = <<>>
    /\ errors = <<>>

Next ==
    \/ \E ingress \in Ingresses :
           Len(ingresses) < MaxIngresses /\ notYetFed(ingress) /\ addIngress(ingress)
    \/ toHTTPRoutesAndGateways

Spec == Init /\ [][Next]_vars

NextCanary ==
    \/ \E ingress \in CanaryIngresses :
           Len(ingresses) < MaxCanaryIngresses /\ notYetFed(ingress) /\ addIngress(ingress)
    \/ toHTTPRoutesAndGateways

SpecCanary == Init /\ [][NextCanary]_vars

NextPaths ==
    \/ \E ingress \in PathIngresses :
           Len(ingresses) < MaxPathIngresses /\ notYetFed(ingress) /\ addIngress(ingress)
    \/ toHTTPRoutesAndGateways

SpecPaths == Init /\ [][NextPaths]_vars

-----------------------------------------------------------------------------
(* The input and the output as the claims speak of them.  These definitions  *)
(* read the source objects and the returned lists directly; they use none of *)
(* the operators above that model the conversion.                            *)

Returned == status = "returned"

HasPrefix(s, p) == Len(s) >= Len(p) /\ SubSeq(s, 1, Len(p)) = p

\* The ingress class of a source object: the explicit field, else the legacy
\* annotation, else the object name.
SourceClass(ingress) ==
    CASE ingress.ingressClassName \notin {<<>>, <<"">>} -> ingress.ingressClassName[1]
      [] OTHER -> IF AnnotationIngressClass \in DOMAIN ingress.annotations
                  THEN ingress.annotations[AnnotationIngressClass]
                  ELSE ingress.name

SourceIsCanary(ingress) ==
    /\ AnnotationCanary \in DOMAIN ingress.annotations
    /\ ingress.annotations[AnnotationCanary] = "true"

SourceHeaderKey(ingress) ==
    IF SourceIsCanary(ingress) /\ AnnotationCanaryByHeader \in DOMAIN ingress.annotations
    THEN ingress.annotations[AnnotationCanaryByHeader] ELSE ""

\* The canary weight of a source object, 0 when it sets none.
SourceWeight(ingress) ==
    IF SourceIsCanary(ingress) /\ AnnotationCanaryWeight \in DOMAIN ingress.annotations
    THEN Atoi(ingress.annotations[AnnotationCanaryWeight]) ELSE 0

\* The path entries of one source object, in the order of its rules and paths.
SourceEntriesOf(ingress) ==
    Flatten([i \in DOMAIN ingress.rules |->
        IF ingress.rules[i].http = <<>> THEN <<>>
        ELSE LET paths == ingress.rules[i].http[1].paths
             IN  [j \in DOMAIN paths |->
                     [namespace |-> ingress.namespace,
                      ingressClass |-> SourceClass(ingress),
                      host |-> ingress.rules[i].host,
                      pathType |-> paths[j].pathType,
                      path |-> paths[j].path,
                      headerKey |-> SourceHeaderKey(ingress),
                      weight |-> SourceWeight(ingress),
                      backend |-> paths[j].backend]]])

\* All path entries in the order addIngress received them.
SourceEntries == Flatten([n \in DOMAIN ingresses |-> SourceEntriesOf(ingresses[n])])

UsesNamedPort(backend) == backend.service # <<>> /\ backend.service[1].portName # ""

SupportedPathTypes == {<<"Prefix">>, <<"Exact">>}

\* The path-match key of an entry as the tuple of its three parts.
PathMatchTuple(e) == <<e.pathType, e.path, e.headerKey>>

\* The keys as the strings the aggregator files entries under.
EntryGroupKey(e) == e.namespace \o "/" \o e.ingressClass \o "/" \o e.host

EntryPathKey(e) ==
    (IF e.pathType = <<>> THEN "" ELSE e.pathType[1]) \o "/" \o e.path \o "/" \o e.headerKey

\* The entries filed under rule group key k and path-match key pmKey, in the
\* order they were added.
Partition(k, pmKey) ==
    SelectSeq(SourceEntries, LAMBDA e : EntryGroupKey(e) = k /\ EntryPathKey(e) = pmKey)

\* The path-match keys of group k whose partition is of a supported path type.
SupportedPathKeys(k) ==
    {EntryPathKey(e) : e \in {x \in Range(SourceEntries) :
                                 EntryGroupKey(x) = k /\ x.pathType \in SupportedPathTypes}}

\* What identifies a backend reference: its name and its port, if any.
RefId(ref) == [name |-> ref.name, port |-> ref.port]

BackendId(backend) ==
    IF backend.service # <<>>
    THEN [name |-> backend.service[1].name, port |-> <<backend.service[1].portNumber>>]
    ELSE [name |-> backend.resource[1].name, port |-> <<>>]

\* The entries of a partition that yield a backend reference.
WithBackendRef(entries) == SelectSeq(entries, LAMBDA e : ~UsesNamedPort(e.backend))

\* A route built from a rule group (a default-backend route has no hostname
\* and is never named "all-hosts").
IsGroupRoute(route) == route.hostnames # <<>> \/ route.name = "all-hosts"

\* The positions in httpRoutes of the routes of rule group rg.
RoutesOfGroup(rg) ==
    {i \in DOMAIN httpRoutes :
        /\ IsGroupRoute(httpRoutes[i])
        /\ httpRoutes[i].namespace = rg.namespace
        /\ httpRoutes[i].parentRefs =
               (IF rg.ingressClass = "" THEN <<>> ELSE <<[name |-> rg.ingressClass]>>)
        /\ httpRoutes[i].hostnames = (IF rg.host = "" THEN <<>> ELSE <<rg.host>>)}

\* The path-match key a route rule's match stands for.
RuleTuple(rule) ==
    <<IF rule.matches[1].path.type = "PathPrefix" THEN <<"Prefix">> ELSE <<"Exact">>,
      rule.matches[1].path.value,
      IF rule.matches[1].headers = <<>> THEN "" ELSE rule.matches[1].headers[1].name>>

RulePathKey(rule) ==
    RuleTuple(rule)[1][1] \o "/" \o RuleTuple(rule)[2] \o "/" \o RuleTuple(rule)[3]

\* All route rules of the output that carry a match.
MatchRules ==
    UNION {Range(httpRoutes[i].rules) :
              i \in {x \in DOMAIN httpRoutes : IsGroupRoute(httpRoutes[x])}}

AllRules == UNION {Range(httpRoutes[i].rules) : i \in DOMAIN httpRoutes}

Weights(rule) == [i \in DOMAIN rule.backendRefs |-> rule.backendRefs[i].weight]

-----------------------------------------------------------------------------
(* Claims *)

IsNamedPortError(e) == HasPrefix(e, NamedPortErrorPrefix)
IsPathTypeError(e) == HasPrefix(e, PathTypeErrorPrefix)
IsGatewayKeyError(e) == HasPrefix(e, GatewayKeyErrorPrefix)

SourceDefaultBackends ==
    SelectSeq(ingresses, LAMBDA ingress : ingress.defaultBackend # <<>>)

\* C1: every translation error raised while a rule group's route is built is
\* in the returned error list: one named-port error per path entry (and per
\* default backend) whose service port is named, and one unsupported-path-type
\* error per path-match partition whose path type is neither Prefix nor Exact.
C1_ErrorsAccumulated ==
    Returned =>
        /\ Len(SelectSeq(errors, IsNamedPortError)) =
               Len(SelectSeq(SourceEntries, LAMBDA e : UsesNamedPort(e.backend)))
               + Len(SelectSeq(SourceDefaultBackends,
                               LAMBDA ingress : UsesNamedPort(ingress.defaultBackend[1])))
        /\ Len(SelectSeq(errors, IsPathTypeError)) =
               Cardinality({<<EntryGroupKey(e), EntryPathKey(e)>> :
                               e \in {x \in Range(SourceEntries) :
                                         x.pathType \notin SupportedPathTypes}})

\* C2: the conversion is deterministic: called again on the same aggregator
\* (the same source objects fed in the same order), toHTTPRoutesAndGateways
\* returns the same ordered routes, gateways and errors.
C2_Deterministic ==
    [][(status = "returned" /\ status' = "returned")
           => (httpRoutes' = httpRoutes /\ gateways' = gateways /\ errors' = errors)]_vars

\* C3: the run never aborts: whatever source objects were fed, malformed ones
\* included, addIngress and toHTTPRoutesAndGateways complete.
C3_NeverAborts == status # "panic"

\* C4: in every returned gateway no two listeners have the same name.
C4_ListenerNamesUnique ==
    Returned =>
        \A g \in DOMAIN gateways :
            \A i, j \in DOMAIN gateways[g].listeners :
                i # j => gateways[g].listeners[i].name # gateways[g].listeners[j].name

\* The (namespace, ingress class) pairs of the source objects that have rules.
SourceGatewayPairs ==
    {<<ingress.namespace, SourceClass(ingress)>> :
        ingress \in {x \in Range(ingresses) : x.rules # <<>>}}

\* C5: exactly one gateway is returned per (namespace, ingress class) pair of
\* the rule groups and no other; its namespace is the pair's, its name and
\* class name are the ingress class verbatim; the malformed-gateway-key error
\* is never produced.
C5_OneGatewayPerPair ==
    Returned =>
        /\ Len(gateways) = Cardinality(SourceGatewayPairs)
        /\ {<<gw.namespace, gw.name, gw.gatewayClassName>> : gw \in Range(gateways)}
               = {<<p[1], p[2], p[2]>> : p \in SourceGatewayPairs}
        /\ \A e \in Range(errors) : ~IsGatewayKeyError(e)

\* The weights the claim gives the backend references of a partition whose
\* entries (those that yield a reference) are `entries`.
ExpectedWeights(entries) ==
    LET n == Len(entries)
        explicit == {i \in 1..n : entries[i].weight # 0}
        k == Cardinality(explicit)
        sum == SumSeq([i \in 1..n |-> entries[i].weight])
    IN  [i \in 1..n |->
            IF i \in explicit THEN <<entries[i].weight>>
            ELSE IF 0 < k /\ k < n THEN <<GoDiv(100 - sum, n - k)>>
            ELSE <<>>]

\* C6: in the route rule of a path-match partition with n backend references
\* of which k carry an explicit (non-zero) canary weight: if 0 < k < n every
\* other reference gets (100 - sum of the explicit weights) / (n - k) in Go's
\* integer division and the explicit weights stay; if k = 0 no reference gets
\* a weight; if k = n nothing is redistributed.
C6_WeightDistribution ==
    Returned =>
        \A k \in DOMAIN ruleGroups :
            /\ RoutesOfGroup(ruleGroups[k]) # {}
            /\ \A i \in RoutesOfGroup(ruleGroups[k]) :
               \A pmKey \in SupportedPathKeys(k) :
                   LET rules == {r \in Range(httpRoutes[i].rules) : RulePathKey(r) = pmKey}
                   IN  /\ rules # {}
                       /\ \A r \in rules :
                              Weights(r) = ExpectedWeights(WithBackendRef(Partition(k, pmKey)))

\* C6 witness: weights [30, unset, unset] came out as 30, 35, 35.
C6_Witness ==
    Returned /\ \E r \in MatchRules : Weights(r) = << <<30>>, <<35>>, <<35>> >>

RefIds(rule) == [i \in DOMAIN rule.backendRefs |-> RefId(rule.backendRefs[i])]

ExpectedRefIds(entries) ==
    LET kept == WithBackendRef(entries)
    IN  [i \in DOMAIN kept |-> BackendId(kept[i].backend)]

TuplePartition(rg, t) ==
    SelectSeq(SourceEntries,
        LAMBDA e : /\ <<e.namespace, e.ingressClass, e.host>>
                          = <<rg.namespace, rg.ingressClass, rg.host>>
                   /\ PathMatchTuple(e) = t)

GroupTuples(rg) ==
    {PathMatchTuple(e) : e \in {x \in Range(SourceEntries) :
        <<x.namespace, x.ingressClass, x.host>> = <<rg.namespace, rg.ingressClass, rg.host>>}}

C8_RouteIdentityUnique ==
    Returned =>
        \A i, j \in DOMAIN httpRoutes :
            i # j => <<httpRoutes[i].namespace, httpRoutes[i].name>>
                         # <<httpRoutes[j].namespace, httpRoutes[j].name>>

\* C9: every weight set on a backend reference is between 0 and 100.
C9_WeightsInRange ==
    Returned =>
        \A r \in AllRules :
            \A i \in DOMAIN r.backendRefs :
                r.backendRefs[i].weight # <<>> => r.backendRefs[i].weight[1] \in 0..100

\* C10: every parent reference of every returned route names a returned
\* gateway of the route's namespace.
C10_ParentRefsResolve ==
    Returned =>
        \A i \in DOMAIN httpRoutes :
            \A p \in DOMAIN httpRoutes[i].parentRefs :
                \E g \in DOMAIN gateways :
                    /\ gateways[g].name = httpRoutes[i].parentRefs[p].name
                    /\ gateways[g].namespace = httpRoutes[i].namespace

====
